---- MODULE Spec2Model ----
(***************************************************************************)
(* Model of src/preview/capture_variants.py: a script that drives a        *)
(* headless browser through the design-variant buttons of a page and       *)
(* writes one full-page screenshot per variant.                            *)
(*                                                                         *)
(* Text that the program matches against the page (button labels, element  *)
(* text) is a sequence of one-character strings, so that the selector's    *)
(* text matching is computed character by character.  File paths and       *)
(* printed lines are only built and compared, so they stay strings.        *)
(*                                                                         *)
(* Driver calls that the script makes and that can fail in a run are       *)
(* goto, wait_for_load_state, click and screenshot.  A failing call raises *)
(* a Python exception; the script has no try/except, so the exception      *)
(* leaves the with block (whose __exit__ still runs) and ends the process  *)
(* with status 1.                                                          *)
(***************************************************************************)
EXTENDS Integers, Sequences, FiniteSets, TLC

\* ------------------------------------------------------------------------
\* Bounds of the model (not program constants)

\* largest number of elements on the served page
MaxElements == 4

\* ------------------------------------------------------------------------
\* Program constants

OUTPUT_DIR == "/tmp/arete-design-preview"

variants == <<"current", "serif", "atmospheric", "combined">>

button_text ==
  [ current     |-> <<"C","u","r","r","e","n","t">>,
    serif       |-> <<"A",":"," ","S","e","r","i","f">>,
    atmospheric |-> <<"C",":"," ","A","t","m","o","s","p","h","e","r","i","c">>,
    combined    |-> <<"A","+","C"," ","C","o","m","b","i","n","e","d">> ]

\* ------------------------------------------------------------------------
\* Selector matching: "button:has-text('<label>')"

UpperToLower ==
  [ c \in {"A","C","D","S"} |->
      CASE c = "A" -> "a" [] c = "C" -> "c" [] c = "D" -> "d" [] c = "S" -> "s" ]

LowerChar(c) == IF c \in DOMAIN UpperToLower THEN UpperToLower[c] ELSE c

Lower(s) == [k \in 1..Len(s) |-> LowerChar(s[k])]

RECURSIVE CollapseSpaces(_)
\* runs of spaces become one space
CollapseSpaces(s) ==
  IF Len(s) < 2 THEN s
  ELSE IF s[1] = " " /\ s[2] = " " THEN CollapseSpaces(Tail(s))
  ELSE <<s[1]>> \o CollapseSpaces(Tail(s))

RECURSIVE TrimLeft(_)
TrimLeft(s) == IF s # <<>> /\ s[1] = " " THEN TrimLeft(Tail(s)) ELSE s

RECURSIVE TrimRight(_)
TrimRight(s) ==
  IF s # <<>> /\ s[Len(s)] = " " THEN TrimRight(SubSeq(s, 1, Len(s) - 1)) ELSE s

NormalizeWhiteSpace(s) == TrimRight(TrimLeft(CollapseSpaces(s)))

\* sub occurs in s as a contiguous run of characters
Contains(s, sub) ==
  \E k \in 0..(Len(s) - Len(sub)) : SubSeq(s, k + 1, k + Len(sub)) = sub

\* :has-text('<label>') - case-insensitive, whitespace-normalised substring
HasText(text, label) ==
  Contains(Lower(NormalizeWhiteSpace(text)), Lower(NormalizeWhiteSpace(label)))

\* the element is selected by button:has-text('<label>')
Selects(el, label) == el.tag = "button" /\ HasText(el.text, label)

\* positions, in document order, of the elements the selector selects
Matching(page, label) == {k \in 1..Len(page) : Selects(page[k], label)}

\* mutant: the last selected element is clicked instead of the first
ClickTargetLast(page, label) ==
  IF Matching(page, label) = {} THEN 0
  ELSE CHOOSE k \in Matching(page, label) : \A j \in Matching(page, label) : k >= j

\* page.click acts on the first selected element in document order; 0: none
ClickTarget(page, label) ==
  IF Matching(page, label) = {} THEN 0
  ELSE CHOOSE k \in Matching(page, label) : \A j \in Matching(page, label) : k <= j

\* mutant: the file is named after nothing that depends on the variant
screenshot_path_fixed(v) == OUTPUT_DIR \o "/" \o "screenshot" \o ".png"

screenshot_path(v) == OUTPUT_DIR \o "/" \o v \o ".png"

CapturedLine(v) == "Captured: " \o screenshot_path(v)

AllSavedLine == "\nAll screenshots saved to " \o OUTPUT_DIR

\* ------------------------------------------------------------------------
\* Pages the script may be run against

Elem(tag, text) == [tag |-> tag, text |-> text]

PageElements ==
  { Elem("button", button_text.current),
    Elem("button", button_text.serif),
    Elem("button", button_text.atmospheric),
    Elem("button", button_text.combined),
    Elem("button", <<"C","u","r","r","e","n","t"," ","D","e","s","i","g","n">>),
    Elem("button", <<"a",":"," "," ","s","e","r","i","f">>),
    Elem("div",    button_text.current) }

\* a page holds at most MaxElements of these elements, each at most once, in
\* any document order
Pages ==
  { page \in UNION { [1..n -> PageElements] : n \in 0..MaxElements } :
      \A i, j \in 1..Len(page) : i # j => page[i] # page[j] }

\* ------------------------------------------------------------------------
\* State

VARIABLES
  pc,          \* the statement the script executes next
  dom,         \* elements of the served page, in document order
  idx,         \* position in variants of the loop variable (0: before loop)
  calls,       \* page-driver calls issued so far: <<operation, variant, ok>>
  clicked,     \* <<variant, position in dom>> of every element clicked
  files,       \* paths of the files written by this run
  stdout,      \* lines printed
  playwright,  \* "none", "started", "stopped"
  browser,     \* "none", "launched", "closed" (browser.close() was called)
  exc,         \* the exception being propagated, or "none"
  exitStatus   \* process exit status, -1 while running

vars == <<pc, dom, idx, calls, clicked, files, stdout, playwright, browser,
          exc, exitStatus>>

variant == variants[idx]

Init ==
  /\ pc = "with_enter"
  /\ dom \in Pages
  /\ idx = 0
  /\ calls = <<>>
  /\ clicked = <<>>
  /\ files = {}
  /\ stdout = <<>>
  /\ playwright = "none"
  /\ browser = "none"
  /\ exc = "none"
  /\ exitStatus = -1

\* an uncaught exception: control leaves the with block
Raise(name) ==
  /\ exc' = name
  /\ pc' = "with_exit"

\* with sync_playwright() as p:
WithEnter ==
  /\ pc = "with_enter"
  /\ playwright' = "started"
  /\ pc' = "launch"
  /\ UNCHANGED <<dom, idx, calls, clicked, files, stdout, browser, exc, exitStatus>>

\* browser = p.chromium.launch(headless=True); page = browser.new_page(...)
Launch ==
  /\ pc = "launch"
  /\ browser' = "launched"
  /\ pc' = "goto"
  /\ UNCHANGED <<dom, idx, calls, clicked, files, stdout, playwright, exc, exitStatus>>

\* page.goto("http://localhost:3000")
Goto ==
  /\ pc = "goto"
  /\ \E ok \in BOOLEAN :
       /\ calls' = Append(calls, <<"goto", "", ok>>)
       /\ IF ok THEN pc' = "wait_for_load_state" /\ exc' = exc
                ELSE Raise("NavigationFailed")
  /\ UNCHANGED <<dom, idx, clicked, files, stdout, playwright, browser, exitStatus>>

\* mutant: a failed network-idle wait is ignored and the loop starts
WaitForLoadStateIgnoringFailure ==
  /\ pc = "wait_for_load_state"
  /\ \E ok \in BOOLEAN :
       /\ calls' = Append(calls, <<"wait_for_load_state", "", ok>>)
       /\ pc' = "for"
       /\ exc' = exc
  /\ UNCHANGED <<dom, idx, clicked, files, stdout, playwright, browser, exitStatus>>

\* page.wait_for_load_state("networkidle")
WaitForLoadState ==
  /\ pc = "wait_for_load_state"
  /\ \E ok \in BOOLEAN :
       /\ calls' = Append(calls, <<"wait_for_load_state", "", ok>>)
       /\ IF ok THEN pc' = "for" /\ exc' = exc
                ELSE Raise("PageNotReady")
  /\ UNCHANGED <<dom, idx, clicked, files, stdout, playwright, browser, exitStatus>>

\* mutant: the loop stops one variant early
ForOneShort ==
  /\ pc = "for"
  /\ IF idx < Len(variants) - 1
       THEN idx' = idx + 1 /\ pc' = "click"
       ELSE idx' = idx /\ pc' = "close"
  /\ UNCHANGED <<dom, calls, clicked, files, stdout, playwright, browser, exc, exitStatus>>

\* for variant in variants:
For ==
  /\ pc = "for"
  /\ IF idx < Len(variants)
       THEN idx' = idx + 1 /\ pc' = "click"
       ELSE idx' = idx /\ pc' = "close"
  /\ UNCHANGED <<dom, calls, clicked, files, stdout, playwright, browser, exc, exitStatus>>

\* mutant: a failed click is swallowed and the loop goes on
ClickContinue ==
  /\ pc = "click"
  /\ LET target == ClickTarget(dom, button_text[variant]) IN
       /\ calls' = Append(calls, <<"click", variant, target # 0>>)
       /\ exc' = exc
       /\ IF target # 0
            THEN /\ clicked' = Append(clicked, <<variant, target>>)
                 /\ pc' = "wait_for_timeout"
            ELSE /\ clicked' = clicked
                 /\ pc' = "for"
  /\ UNCHANGED <<dom, idx, files, stdout, playwright, browser, exitStatus>>

\* page.click(f"button:has-text('{button_text}')")
Click ==
  /\ pc = "click"
  /\ LET target == ClickTarget(dom, button_text[variant]) IN
       /\ calls' = Append(calls, <<"click", variant, target # 0>>)
       /\ IF target # 0
            THEN /\ clicked' = Append(clicked, <<variant, target>>)
                 /\ pc' = "wait_for_timeout"
                 /\ exc' = exc
            ELSE /\ clicked' = clicked
                 /\ Raise("TriggerNotFound")
  /\ UNCHANGED <<dom, idx, files, stdout, playwright, browser, exitStatus>>

\* mutant: the settle delay is skipped
WaitForTimeoutSkipped ==
  /\ pc = "wait_for_timeout"
  /\ pc' = "screenshot"
  /\ UNCHANGED <<dom, idx, calls, clicked, files, stdout, playwright, browser, exc, exitStatus>>

\* page.wait_for_timeout(300)
WaitForTimeout ==
  /\ pc = "wait_for_timeout"
  /\ calls' = Append(calls, <<"wait_for_timeout", variant, TRUE>>)
  /\ pc' = "screenshot"
  /\ UNCHANGED <<dom, idx, clicked, files, stdout, playwright, browser, exc, exitStatus>>

\* mutant: a failed screenshot is swallowed and the loop goes on
ScreenshotContinue ==
  /\ pc = "screenshot"
  /\ \E ok \in BOOLEAN :
       /\ calls' = Append(calls, <<"screenshot", variant, ok>>)
       /\ exc' = exc
       /\ files' = IF ok THEN files \cup {screenshot_path(variant)} ELSE files
       /\ pc' = "print_captured"
  /\ UNCHANGED <<dom, idx, clicked, stdout, playwright, browser, exitStatus>>

\* page.screenshot(path=screenshot_path, full_page=True)
Screenshot ==
  /\ pc = "screenshot"
  /\ \E ok \in BOOLEAN :
       /\ calls' = Append(calls, <<"screenshot", variant, ok>>)
       /\ IF ok
            THEN /\ files' = files \cup {screenshot_path(variant)}
                 /\ pc' = "print_captured"
                 /\ exc' = exc
            ELSE /\ files' = files
                 /\ Raise("ScreenshotWriteFailed")
  /\ UNCHANGED <<dom, idx, clicked, stdout, playwright, browser, exitStatus>>

\* mutant: the same variant is captured again before the loop moves on
PrintCapturedThenRetry ==
  /\ pc = "print_captured"
  /\ stdout' = Append(stdout, CapturedLine(variant))
  /\ pc' = IF Len(stdout) < idx THEN "click" ELSE "for"
  /\ UNCHANGED <<dom, idx, calls, clicked, files, playwright, browser, exc, exitStatus>>

\* print(f"Captured: {screenshot_path}")
PrintCaptured ==
  /\ pc = "print_captured"
  /\ stdout' = Append(stdout, CapturedLine(variant))
  /\ pc' = "for"
  /\ UNCHANGED <<dom, idx, calls, clicked, files, playwright, browser, exc, exitStatus>>

\* mutant: the browser is never closed
BrowserCloseForgotten ==
  /\ pc = "close"
  /\ pc' = "print_all"
  /\ UNCHANGED <<dom, idx, calls, clicked, files, stdout, playwright, browser, exc, exitStatus>>

\* browser.close()
BrowserClose ==
  /\ pc = "close"
  /\ browser' = "closed"
  /\ pc' = "print_all"
  /\ UNCHANGED <<dom, idx, calls, clicked, files, stdout, playwright, exc, exitStatus>>

\* print(f"\nAll screenshots saved to {OUTPUT_DIR}")
PrintAll ==
  /\ pc = "print_all"
  /\ stdout' = Append(stdout, AllSavedLine)
  /\ pc' = "with_exit"
  /\ UNCHANGED <<dom, idx, calls, clicked, files, playwright, browser, exc, exitStatus>>

\* leaving the with block, normally or by an exception: playwright stops
WithExit ==
  /\ pc = "with_exit"
  /\ playwright' = "stopped"
  /\ pc' = "exit"
  /\ UNCHANGED <<dom, idx, calls, clicked, files, stdout, browser, exc, exitStatus>>

\* mutant: the process reports success whatever happened
ExitAlwaysZero ==
  /\ pc = "exit"
  /\ exitStatus' = 0
  /\ pc' = "done"
  /\ UNCHANGED <<dom, idx, calls, clicked, files, stdout, playwright, browser, exc>>

\* end of the module body: status 0, or 1 for an uncaught exception
Exit ==
  /\ pc = "exit"
  /\ exitStatus' = IF exc = "none" THEN 0 ELSE 1
  /\ pc' = "done"
  /\ UNCHANGED <<dom, idx, calls, clicked, files, stdout, playwright, browser, exc>>

Next ==
  \/ WithEnter
  \/ Launch
  \/ Goto
  \/ WaitForLoadState
  \/ For
  \/ Click
  \/ WaitForTimeout
  \/ Screenshot
  \/ PrintCaptured
  \/ BrowserClose
  \/ PrintAll
  \/ WithExit
  \/ Exit

Spec == Init /\ [][Next]_vars

\* ------------------------------------------------------------------------
\* Vocabulary of the properties

NumVariants == Len(variants)

\* positions in calls of the calls of operation op made for variant v
CallsOf(op, v) == {k \in 1..Len(calls) : calls[k][1] = op /\ calls[k][2] = v}

\* the click or the screenshot of variant v failed
Failed(v) == \E k \in 1..Len(calls) : calls[k][2] = v /\ ~calls[k][3]

\* the screenshot of variant v was taken
Captured(v) == \E k \in 1..Len(calls) : calls[k] = <<"screenshot", v, TRUE>>

PastNavigation ==
  \E k \in 1..Len(calls) : calls[k] = <<"wait_for_load_state", "", TRUE>>

NavigationFailure ==
  \E k \in 1..Len(calls) :
    calls[k][1] \in {"goto", "wait_for_load_state"} /\ ~calls[k][3]

\* the per-variant outcome records of the run: its "Captured: ..." lines
Outcomes == SelectSeq(stdout, LAMBDA line : line # AllSavedLine)

\* number of variants that precede the first failing one (all, if none fails)
BeforeFirstFailure ==
  IF \E k \in 1..NumVariants : Failed(variants[k])
    THEN (CHOOSE k \in 1..NumVariants :
            Failed(variants[k]) /\ \A j \in 1..(k - 1) : ~Failed(variants[j])) - 1
    ELSE NumVariants

ExpectedFileNames ==
  [ current     |-> "/tmp/arete-design-preview/current.png",
    serif       |-> "/tmp/arete-design-preview/serif.png",
    atmospheric |-> "/tmp/arete-design-preview/atmospheric.png",
    combined    |-> "/tmp/arete-design-preview/combined.png" ]

\* the driver calls of a run in which nothing fails, in order
CallOrder ==
  [ k \in 1..(2 + 3 * NumVariants) |->
      IF k = 1 THEN <<"goto", "">>
      ELSE IF k = 2 THEN <<"wait_for_load_state", "">>
      ELSE LET v == variants[((k - 3) \div 3) + 1] IN
           CASE (k - 3) % 3 = 0 -> <<"click", v>>
             [] (k - 3) % 3 = 1 -> <<"wait_for_timeout", v>>
             [] (k - 3) % 3 = 2 -> <<"screenshot", v>> ]

\* ------------------------------------------------------------------------
\* C1

\* C1 as stated: a run that got past navigation ends with exactly one outcome
\* record per configured variant, in configured order, whatever clicks or
\* screenshots failed.
C1_OneOutcomePerVariant ==
  (pc = "done" /\ PastNavigation) =>
    Outcomes = [k \in 1..NumVariants |-> CapturedLine(variants[k])]

\* C1 amended: a run that got past navigation ends with exactly one outcome
\* record for each variant that precedes the first variant whose click or
\* screenshot fails (for every variant when none fails), in configured order.
C1_OutcomesUpToFirstFailure ==
  (pc = "done" /\ PastNavigation) =>
    /\ Outcomes = [k \in 1..BeforeFirstFailure |-> CapturedLine(variants[k])]
    /\ (Len(Outcomes) = NumVariants <=> \A k \in 1..NumVariants : ~Failed(variants[k]))

C1_Witness ==
  /\ pc = "done"
  /\ PastNavigation
  /\ Failed(variants[3])
  /\ Len(Outcomes) = 2

\* ------------------------------------------------------------------------
\* C2

\* C2 as stated: when the click or screenshot of a variant fails, the failure
\* is not raised out of the run and every later variant is still clicked and
\* captured.
C2_LaterVariantsStillCaptured ==
  pc = "done" =>
    \A i \in 1..NumVariants : Failed(variants[i]) =>
      /\ exc = "none"
      /\ \A j \in (i + 1)..NumVariants :
           CallsOf("click", variants[j]) # {} /\ Captured(variants[j])

\* C2 amended: when the click or screenshot of a variant fails, the failure
\* is raised out of the run (it ends with exit status 1): no later variant is
\* clicked or captured, the failing variant writes no file, and the variants
\* before it keep their captures.
C2_FailureEndsTheRun ==
  \A i \in 1..NumVariants : Failed(variants[i]) =>
    /\ exc \in {"TriggerNotFound", "ScreenshotWriteFailed"}
    /\ pc \in {"with_exit", "exit", "done"}
    /\ pc = "done" => exitStatus = 1
    /\ ~Captured(variants[i])
    /\ \A j \in (i + 1)..NumVariants :
         /\ CallsOf("click", variants[j]) = {}
         /\ CallsOf("screenshot", variants[j]) = {}
         /\ ExpectedFileNames[variants[j]] \notin files
    /\ \A j \in 1..(i - 1) :
         Captured(variants[j]) /\ ExpectedFileNames[variants[j]] \in files

C2_Witness ==
  /\ pc = "done"
  /\ Failed(variants[2])
  /\ exc = "TriggerNotFound"
  /\ Captured(variants[1])

\* ------------------------------------------------------------------------
\* C3

\* C3: if navigation to the base URL or the network-idle wait fails, the run
\* fails at the run level before any variant is processed: no click is
\* issued, no screenshot is written and no per-variant outcome is produced.
C3_NavigationFailureAbortsRun ==
  NavigationFailure =>
    /\ exc \in {"NavigationFailed", "PageNotReady"}
    /\ pc \in {"with_exit", "exit", "done"}
    /\ pc = "done" => exitStatus = 1
    /\ \A k \in 1..Len(calls) : calls[k][1] \notin {"click", "screenshot"}
    /\ clicked = <<>>
    /\ files = {}
    /\ stdout = <<>>

C3_Witness ==
  /\ pc = "done"
  /\ calls = <<<<"goto", "", TRUE>>, <<"wait_for_load_state", "", FALSE>>>>
  /\ Len(dom) > 0

\* ------------------------------------------------------------------------
\* C4

\* C4 as stated: the browser launched at run start is explicitly closed on
\* every exit path; no terminal state has the browser launched and close
\* never invoked.
C4_ClosedOnEveryExit ==
  pc = "done" => browser # "launched"

\* C4 amended: browser.close() is invoked on the exit path of a run in which
\* nothing failed, and only there; a run ended by a navigation, click or
\* screenshot failure terminates with the browser launched and close never
\* invoked, the enclosing sync_playwright context being the only thing that
\* is exited (stopped) on every exit path.
C4_ClosedOnlyAfterSuccess ==
  pc = "done" =>
    /\ playwright = "stopped"
    /\ browser \in {"launched", "closed"}
    /\ (browser = "closed" <=> exc = "none")
    /\ (browser = "closed" <=> exitStatus = 0)

C4_Witness ==
  /\ pc = "done"
  /\ browser = "launched"
  /\ playwright = "stopped"
  /\ exc = "ScreenshotWriteFailed"

\* ------------------------------------------------------------------------
\* C5

\* C5: within one run each configured variant gets at most one capture
\* attempt: its trigger is clicked at most once and its screenshot is taken
\* at most once, with no retry after a failure.
C5_AtMostOneAttempt ==
  \A k \in 1..NumVariants :
    /\ Cardinality(CallsOf("click", variants[k])) <= 1
    /\ Cardinality(CallsOf("screenshot", variants[k])) <= 1
    /\ Cardinality({n \in 1..Len(clicked) : clicked[n][1] = variants[k]}) <= 1
    /\ Failed(variants[k]) =>
         \A n \in 1..Len(calls) : ~calls[n][3] => n = Len(calls)

C5_Witness ==
  /\ pc = "done"
  /\ Cardinality(CallsOf("click", variants[1])) = 1
  /\ Cardinality(CallsOf("screenshot", variants[1])) = 1
  /\ Failed(variants[2])

\* ------------------------------------------------------------------------
\* C6

\* C6: driver operations occur in a strictly sequential order: navigate,
\* network-idle wait, then for each variant in configured order click,
\* settle delay, full-page screenshot; a call is issued only after every
\* call before it in that order has completed successfully.
C6_StrictlySequential ==
  /\ Len(calls) <= Len(CallOrder)
  /\ \A k \in 1..Len(calls) :
       /\ <<calls[k][1], calls[k][2]>> = CallOrder[k]
       /\ k < Len(calls) => calls[k][3]

C6_Witness ==
  /\ pc = "done"
  /\ Len(calls) = Len(CallOrder)
  /\ calls[Len(calls)] = <<"screenshot", variants[NumVariants], TRUE>>

\* ------------------------------------------------------------------------
\* C7

\* C7: the set of files written by a run is exactly
\* { OUTPUT_DIR/<variant>.png : the variant succeeded }: at most one file per
\* configured variant, named after the variant, and a variant whose trigger
\* click fails writes no file.
C7_FilesAreSucceededVariants ==
  /\ files = {ExpectedFileNames[variants[k]] :
                k \in {j \in 1..NumVariants : Captured(variants[j])}}
  /\ Cardinality(files) <= NumVariants
  /\ \A k \in 1..NumVariants :
       (\E n \in 1..Len(calls) : calls[n] = <<"click", variants[k], FALSE>>) =>
         ExpectedFileNames[variants[k]] \notin files

C7_Witness ==
  /\ pc = "done"
  /\ calls[Len(calls)] = <<"click", variants[3], FALSE>>
  /\ Cardinality(files) = 2

\* a run whose first trigger matches nothing writes no file at all
C7_ZeroFiles ==
  /\ pc = "done"
  /\ calls[Len(calls)] = <<"click", variants[1], FALSE>>
  /\ files = {}

\* ------------------------------------------------------------------------
\* C8

\* C8: the process exit status is 0 if every variant's capture succeeded and
\* 1 if any variant's capture failed.
C8_ExitStatus ==
  pc = "done" =>
    /\ (\A k \in 1..NumVariants : Captured(variants[k])) => exitStatus = 0
    /\ (\E k \in 1..NumVariants : Failed(variants[k])) => exitStatus = 1

C8_Witness ==
  /\ pc = "done"
  /\ exitStatus = 1
  /\ Failed(variants[NumVariants])

C8_WitnessSuccess ==
  /\ pc = "done"
  /\ exitStatus = 0
  /\ \A k \in 1..NumVariants : Captured(variants[k])

\* ------------------------------------------------------------------------
\* C9

\* C9 as stated: the click targets the first element in document order whose
\* text exactly matches the variant's trigger label; an element whose text
\* merely contains the label is never the one clicked.
C9_ExactTextMatch ==
  \A n \in 1..Len(clicked) :
    LET label == button_text[clicked[n][1]]
        t     == clicked[n][2]
    IN  /\ dom[t].text = label
        /\ \A j \in 1..(t - 1) : dom[j].text # label

\* C9 amended: the click targets the first button element in document order
\* whose text contains the variant's trigger label, compared without regard
\* to letter case and with runs of white space collapsed; a button whose text
\* is a longer string including the label is clicked when it comes first.
C9_FirstButtonContainingLabel ==
  \A n \in 1..Len(clicked) :
    LET label == button_text[clicked[n][1]]
        t     == clicked[n][2]
        Has(el) == /\ el.tag = "button"
                   /\ LET T == Lower(NormalizeWhiteSpace(el.text))
                          L == Lower(label)
                      IN  \E a \in 0..(Len(T) - Len(L)) :
                            \A c \in 1..Len(L) : T[a + c] = L[c]
    IN  /\ t \in 1..Len(dom)
        /\ Has(dom[t])
        /\ \A j \in 1..(t - 1) : ~Has(dom[j])

C9_Witness ==
  \E n \in 1..Len(clicked) :
    /\ clicked[n][1] = "current"
    /\ dom[clicked[n][2]].text # button_text.current
    /\ \E j \in (clicked[n][2] + 1)..Len(dom) :
         dom[j] = Elem("button", button_text.current)

\* ------------------------------------------------------------------------
\* C10

\* C10: at every point of a run the variants already captured form a prefix
\* of the configured order, and the final "All screenshots saved" line is
\* emitted only after all configured variants have been captured and the
\* browser has been closed.
C10_PrefixAndFinalLine ==
  /\ \A k \in 1..NumVariants :
       Captured(variants[k]) => \A j \in 1..(k - 1) : Captured(variants[j])
  /\ \E n \in 0..NumVariants :
       files = {ExpectedFileNames[variants[k]] : k \in 1..n}
  /\ (\E n \in 1..Len(stdout) : stdout[n] = AllSavedLine) =>
       /\ \A k \in 1..NumVariants : Captured(variants[k])
       /\ Outcomes = [k \in 1..NumVariants |-> CapturedLine(variants[k])]
       /\ browser = "closed"
       /\ stdout[Len(stdout)] = AllSavedLine

C10_Witness ==
  /\ stdout # <<>>
  /\ stdout[Len(stdout)] = AllSavedLine
  /\ Cardinality(files) = NumVariants

====
